---- MODULE Spec2Model ----
(***************************************************************************)
(* A model of AudioMerge: the MixCut editor (src/main.py with              *)
(* src/workers.py and src/utils.py) and the earlier mixer (src/mixer.py).  *)
(*                                                                         *)
(* Times are integers in milliseconds.  Audio levels are integers in       *)
(* millionths of the full output level (1000000 = 1.0).  A Qt media player *)
(* (QMediaPlayer) is modelled by its documented behaviour: stop() resets   *)
(* the position to 0, setPosition() is ignored without loaded media and    *)
(* keeps the position inside [0, duration] otherwise, and a change of      *)
(* position or duration is notified at once to the connected slot.         *)
(***************************************************************************)
EXTENDS Integers, Sequences, FiniteSets, TLC

VARIABLES
    \* ---- src/main.py: MainWindow, MainTimeline, AudioTrackWidget ----
    video_path,     \* MainWindow.video_path ("none" for None)
    fps,            \* MainWindow.fps as <<num, den>>
    screen,         \* MainWindow.stack current index (0 start screen, 1 editor)
    player,         \* MainWindow.player, the master QMediaPlayer
    timeline,       \* MainTimeline: duration, position, in_point, out_point
    tracks,         \* MainWindow.tracks, a sequence of AudioTrackWidget
    extractors,     \* running AudioExtractorThread objects
    ready,          \* finished_extraction signals emitted and not yet delivered
    files,          \* temp_dir: track index -> content of track_<index>.wav
    btn_export,     \* MainWindow.btn_export.isEnabled()
    exporter,       \* running ExportThread objects started by MainWindow.export
    dialog,         \* text of the last QMessageBox shown ("" for none)
    keyframes,      \* MainWindow.keyframes, in ms
    kf_loaders,     \* clips whose KeyframeLoaderThread has not delivered yet
    \* ---- src/mixer.py: MainWindow, AudioTrackWidget, ProgressButton ----
    current_video_path, \* MainWindow.current_video_path ("none" for None)
    video_duration,     \* MainWindow.video_duration, in ms
    track_widgets,      \* MainWindow.track_widgets
    mixer_extractors,   \* running AudioExtractorThread objects
    mixer_ready,        \* finished_extraction signals not yet delivered
    preview_files,      \* temp_dir: track index -> content of preview_<index>.wav
    export_btn,         \* ProgressButton: enabled, is_exporting, progress
    export_thread,      \* running ExportThread objects started by start_export
    mixer_dialog,       \* text of the last QMessageBox shown ("" for none)
    \* ---- WaveformWidget.load_data on a 16-bit PCM file ----
    wav,                \* the .wav file: [count, shape] of its samples
    samples,            \* WaveformWidget.samples, peaks in 1/32768
    \* ---- src/workers.py: one ExportThread and its ffmpeg process ----
    total_duration,     \* ExportThread.total_duration, in ms
    is_running,         \* ExportThread.is_running
    process,            \* ExportThread.process: [state, returncode]
    thread_pc,          \* where ExportThread.run stands
    progress_update,    \* emissions of the progress_update signal, in order
    finished            \* emissions of the finished signal, in order

main_vars == <<video_path, fps, screen, player, timeline, tracks,
               extractors, ready, files, btn_export, exporter, dialog,
               keyframes, kf_loaders>>

mixer_vars == <<current_video_path, video_duration, track_widgets,
                mixer_extractors, mixer_ready, preview_files, export_btn,
                export_thread, mixer_dialog>>

wave_vars == <<wav, samples>>

run_vars == <<total_duration, is_running, process, thread_pc, progress_update,
              finished>>

vars == <<main_vars, mixer_vars, wave_vars, run_vars>>

\* What a session of one program leaves alone.
not_main == <<mixer_vars, wave_vars, run_vars>>

not_mixer == <<main_vars, wave_vars, run_vars>>

not_wave == <<main_vars, mixer_vars, run_vars>>

not_run == <<main_vars, mixer_vars, wave_vars>>

----------------------------------------------------------------------------
(* Arithmetic helpers *)

Abs(x) == IF x < 0 THEN -x ELSE x

Min(a, b) == IF a < b THEN a ELSE b

Max(a, b) == IF a > b THEN a ELSE b

\* Python's int(a / b) for b > 0: truncation towards zero.
TruncDiv(a, b) == IF a >= 0 THEN a \div b ELSE -((-a) \div b)

Range(s) == {s[i] : i \in 1..Len(s)}

----------------------------------------------------------------------------
(* The media files a user can open: what ffprobe and the players report.   *)

NoMedia == "none"

\* Clips without an audio stream, clips with audio streams, an unreadable file.
SilentMedia == {"S1", "S2"}

AudioMedia == {"A", "B"}

\* A clip with a single audio stream.
MonoMedia == {"M"}

BrokenMedia == {"X"}

\* ffprobe fails (check_output raises) on an unreadable file.
ProbeOk(m) == m \notin BrokenMedia

\* Number of streams with codec_type == 'audio'.
AudioStreams(m) ==
    CASE m = "A" -> 2 [] m = "B" -> 2 [] m = "M" -> 1
      [] m = "F" -> 1 [] m = "H" -> 1 [] m = "L" -> 1 [] OTHER -> 0

\* Duration the master player reports once the clip is loaded (ms).
DurationOf(m) ==
    CASE m = "A" -> 10000 [] m = "B" -> 10000 [] m = "M" -> 4000
      [] m = "S1" -> 100 [] m = "S2" -> 50
      [] m = "F" -> 100 [] m = "H" -> 50 [] m = "K" -> 10000
      [] m = "L" -> 3660000 [] OTHER -> 0

\* r_frame_rate of the video stream as <<num, den>>.
FrameRateOf(m) ==
    CASE m = "S2" -> <<30, 1>> [] m = "F" -> <<24, 1>> [] m = "H" -> <<60, 1>>
      [] OTHER -> <<20, 1>>

\* pts_time of the packets of the video stream flagged K, in ms, in the
\* order ffprobe prints them.
KeyframesOf(m) ==
    CASE m = "K" -> <<1000, 5000, 9000>>
      [] m = "S1" -> <<80, 0, 40>>
      [] OTHER -> <<0>>

----------------------------------------------------------------------------
(* Audio levels: 10 ** (db / 20.0) in millionths, for db in -30..30.       *)

Pow10Table ==
    << 31623, 35481, 39811, 44668, 50119, 56234,
       63096, 70795, 79433, 89125, 100000, 112202,
       125893, 141254, 158489, 177828, 199526, 223872,
       251189, 281838, 316228, 354813, 398107, 446684,
       501187, 562341, 630957, 707946, 794328, 891251,
       1000000, 1122018, 1258925, 1412538, 1584893, 1778279,
       1995262, 2238721, 2511886, 2818383, 3162278, 3548134,
       3981072, 4466836, 5011872, 5623413, 6309573, 7079458,
       7943282, 8912509, 10000000, 11220185, 12589254, 14125375,
       15848932, 17782794, 19952623, 22387211, 25118864, 28183829,
       31622777 >>

\* Range of the gain slider and spin box.
GAIN_MIN == -30

GAIN_MAX == 30

\* 10 ** (db / 20.0), in millionths.  Outside the range of the widgets the
\* power is bounded by the value at the end of the range.
Linear(db) ==
    IF db > GAIN_MAX THEN Pow10Table[Len(Pow10Table)]
    ELSE IF db < GAIN_MIN THEN Pow10Table[1]
    ELSE Pow10Table[db - GAIN_MIN + 1]

\* 1.0 in millionths.
FullLevel == 1000000

\* HEADROOM_FACTOR = 0.25, in hundredths.
HEADROOM_FACTOR == 25

\* The level without the cap at 1.0.
HeadroomLevel_uncapped(db) == (Linear(db) * HEADROOM_FACTOR) \div 100

\* min(1.0, (10 ** (db / 20.0)) * HEADROOM_FACTOR)
HeadroomLevel(db) == Min(FullLevel, (Linear(db) * HEADROOM_FACTOR) \div 100)

----------------------------------------------------------------------------
(* File contents and envelopes.  The content of a preview file is named by *)
(* the clip and the audio stream it was decoded from.                      *)

NoContent == [media |-> "none", index |-> -1]

Corrupt == [media |-> "corrupt", index |-> -1]

Decoded(m, i) == [media |-> m, index |-> i]

\* os.path.exists(path)
Exists(content) == content # NoContent

----------------------------------------------------------------------------
(* QMediaPlayer *)

NewPlayer ==
    [source |-> NoMedia, status |-> "empty", state |-> "stopped",
     position |-> 0, duration |-> 0, requested |-> 0]

Clamp(x, lo, hi) == Max(lo, Min(x, hi))

\* QMediaPlayer.setPosition(ms); `requested` keeps the argument of the call.
PlayerSetPosition(p, ms) ==
    IF p.status = "loaded"
    THEN [p EXCEPT !.position = Clamp(ms, 0, p.duration), !.requested = ms]
    ELSE [p EXCEPT !.requested = ms]

\* QMediaPlayer.stop()
PlayerStop(p) == [p EXCEPT !.state = "stopped", !.position = 0]

\* QMediaPlayer.setSource(url): stops, then starts loading the new source;
\* the duration of the new media is known when loading has finished.
PlayerSetSource(p, m) ==
    [PlayerStop(p) EXCEPT !.source = m,
                          !.status = IF m = NoMedia THEN "empty" ELSE "loading"]

\* QMediaPlayer.play()
PlayerPlay(p) == IF p.source = NoMedia THEN p ELSE [p EXCEPT !.state = "playing"]

\* QMediaPlayer.pause()
PlayerPause(p) == IF p.source = NoMedia THEN p ELSE [p EXCEPT !.state = "paused"]

----------------------------------------------------------------------------
(* MainTimeline (src/main.py) *)

NewTimeline ==
    [duration |-> 0, position |-> 0, in_point |-> 0, out_point |-> 0,
     nearest_keyframe |-> -1]

reset_points(tl) ==
    [tl EXCEPT !.in_point = 0, !.out_point = tl.duration, !.nearest_keyframe = -1]

set_duration(tl, duration) == reset_points([tl EXCEPT !.duration = duration])

set_position(tl, pos) == [tl EXCEPT !.position = pos]

set_nearest_keyframe(tl, ms) == [tl EXCEPT !.nearest_keyframe = ms]

\* A set_in_point that forgets to repair an inverted range.
set_in_point_no_repair(tl) == [tl EXCEPT !.in_point = tl.position]

\* The in-point moved and the out-point sent to the end in every case.
set_in_point_always_reset(tl) ==
    [tl EXCEPT !.in_point = tl.position, !.out_point = tl.duration]

set_in_point(tl) ==
    LET t1 == [tl EXCEPT !.in_point = tl.position]
    IN  IF t1.in_point > t1.out_point
        THEN [t1 EXCEPT !.out_point = t1.duration]
        ELSE t1

\* The out-point moved without looking at the in-point.
set_out_point_no_repair(tl) == [tl EXCEPT !.out_point = tl.position]

set_out_point(tl) ==
    LET t1 == [tl EXCEPT !.out_point = tl.position]
    IN  IF t1.out_point < t1.in_point
        THEN [t1 EXCEPT !.in_point = 0]
        ELSE t1

----------------------------------------------------------------------------
(* AudioTrackWidget (src/main.py) *)

\* A gain as the handlers store it: the slider hands over an int, the spin
\* box and the initial value are floats (they print as "-6" and "-6.0").
IntDb(v) == [value |-> v, float |-> FALSE]

FloatDb(v) == [value |-> v, float |-> TRUE]

\* AudioTrackWidget.update_volume: the level handed to audio_out.setVolume.
update_volume(t) ==
    IF ~t.is_active
    THEN [t EXCEPT !.volume = 0]
    ELSE [t EXCEPT !.volume = HeadroomLevel(t.current_db.value)]

\* AudioTrackWidget.__init__: the widget of audio stream `index`, created as
\* the id-th widget of the session; its extractor is started by the caller.
NewTrack(index, id) ==
    update_volume(
        [index |-> index, id |-> id, checked |-> TRUE, is_active |-> TRUE,
         current_db |-> FloatDb(0), samples |-> NoContent, gain_db |-> 0,
         wpos |-> 0, source |-> NoContent, pstate |-> "stopped", ppos |-> 0,
         volume |-> 0])

\* AudioTrackWidget.on_toggle_active
on_toggle_active(t, checked) ==
    update_volume([t EXCEPT !.checked = checked, !.is_active = checked])

\* AudioTrackWidget.on_gain_change (slider) / on_spin_change (spin box):
\* WaveformWidget.set_gain_db keeps the gain the waveform is drawn with.
\* The slider value stored without reaching the waveform and the output.
on_gain_change_stored_only(t, val) == [t EXCEPT !.current_db = IntDb(val)]

on_gain_change(t, val) ==
    update_volume([t EXCEPT !.current_db = IntDb(val), !.gain_db = val])

on_spin_change(t, val) ==
    update_volume([t EXCEPT !.current_db = FloatDb(val), !.gain_db = val])

\* The track's own QMediaPlayer: setPosition is ignored without playable
\* media and stays inside the decoded audio otherwise.
TrackSetPosition(t, ms) ==
    IF Exists(t.source) /\ t.source # Corrupt
    THEN [t EXCEPT !.ppos = Clamp(ms, 0, DurationOf(t.source.media))]
    ELSE t

\* AudioTrackWidget.sync_play: play only with a valid source URL.
sync_play(t) == IF Exists(t.source) THEN [t EXCEPT !.pstate = "playing"] ELSE t

\* A sync_pause that does not reach the track's player.
sync_pause_ignored(t) == t

\* AudioTrackWidget.sync_pause
sync_pause(t) == IF Exists(t.source) THEN [t EXCEPT !.pstate = "paused"] ELSE t

\* Drift beyond which sync_position seeks the track's player (ms).
SYNC_TOLERANCE == 50

\* The seek issued already at a drift equal to the tolerance.
sync_position_at_tolerance(t, ms) ==
    LET t1 == [t EXCEPT !.wpos = ms]
    IN  IF Abs(t1.ppos - ms) >= SYNC_TOLERANCE THEN TrackSetPosition(t1, ms) ELSE t1

\* AudioTrackWidget.sync_position
sync_position(t, ms) ==
    LET t1 == [t EXCEPT !.wpos = ms]
    IN  IF Abs(t1.ppos - ms) > SYNC_TOLERANCE THEN TrackSetPosition(t1, ms) ELSE t1

\* WaveformWidget.load_data(path): a missing file returns early, a file that
\* wave.open cannot read raises and is swallowed; both leave samples alone.
load_data(t, content) ==
    IF ~Exists(content) \/ content = Corrupt
    THEN t
    ELSE [t EXCEPT !.samples = content]

\* The track started whatever the master does.
on_track_sync_request_play(t, master) ==
    update_volume([TrackSetPosition(t, master.position) EXCEPT !.pstate = "playing"])

\* MainWindow.on_track_sync_request
on_track_sync_request(t, master) ==
    LET t1 == TrackSetPosition(t, master.position)
        t2 == IF master.state = "playing" THEN [t1 EXCEPT !.pstate = "playing"]
              ELSE [t1 EXCEPT !.pstate = "paused"]
    IN  update_volume(t2)

\* AudioTrackWidget.on_ready(path, idx), with the slot connected to track_loaded
on_ready(t, content, master) ==
    LET t1 == load_data(t, content)
    IN  IF Exists(content)
        THEN on_track_sync_request([t1 EXCEPT !.source = content], master)
        ELSE t1

\* for t in self.tracks: f(t)
ForAll(trs, f(_)) == [i \in 1..Len(trs) |-> f(trs[i])]

----------------------------------------------------------------------------
(* MainWindow (src/main.py): slots of the master player's notifications *)

\* sorted(keyframes)
sorted(a) == SortSeq(a, LAMBDA x, y : x < y)

\* bisect.bisect_left(a, x) on an ascending list: the number of elements
\* smaller than x.
bisect_left(a, x) == Cardinality({i \in 1..Len(a) : a[i] < x})

\* The keyframe before the position taken whenever there is one.
closest_ms_before(kfs, pos) ==
    LET idx == bisect_left(kfs, pos)
    IN  IF idx = 0 THEN kfs[1] ELSE kfs[idx]

\* closest_ms of on_position_changed for a non-empty list (idx counts from 0).
closest_ms(kfs, pos) ==
    LET idx == bisect_left(kfs, pos)
    IN  IF idx = 0 THEN kfs[1]
        ELSE IF idx = Len(kfs) THEN kfs[Len(kfs)]
        ELSE LET before == kfs[idx]
                 after  == kfs[idx + 1]
             IN  IF Abs(pos - before) < Abs(after - pos) THEN before ELSE after

\* MainWindow.on_position_changed with self.keyframes = kfs: the timeline
\* cursor, the nearest keyframe and the tracks follow.
on_position_changed(kfs, tl, trs, pos) ==
    [timeline |-> LET t1 == set_position(tl, pos)
                  IN  IF kfs # <<>>
                      THEN set_nearest_keyframe(t1, closest_ms(kfs, pos))
                      ELSE t1,
     tracks   |-> LET f(t) == sync_position(t, pos) IN ForAll(trs, f)]

\* positionChanged is emitted when a player operation moved the position.
NotifyPosition(old, new, tl, trs) ==
    IF new.position # old.position
    THEN on_position_changed(keyframes, tl, trs, new.position)
    ELSE [timeline |-> tl, tracks |-> trs]

----------------------------------------------------------------------------
(* Export command (src/utils.py format_time, src/main.py MainWindow.export) *)

\* f"{n:02d}"
Pad2(n) == IF n < 10 THEN "0" \o ToString(n) ELSE ToString(n)

\* utils.format_time(ms): f"{int(minutes):02d}:{seconds:05.2f}" with
\* seconds = (ms / 1000) % 60 and minutes = (ms / 60000) % 60.  The seconds
\* are rounded to hundredths (a value ending in 5 ms rounds as its binary
\* representation falls; the model's positions do not end in 5).
\* The numbers format_time prints: int(minutes), and the seconds rounded to
\* hundredths (59.996 prints as 60.00).
TimeFields(ms) ==
    [minutes |-> (ms \div 60000) % 60, centis |-> ((ms % 60000) + 5) \div 10]

format_time(ms) ==
    LET f == TimeFields(ms)
    IN  Pad2(f.minutes) \o ":" \o Pad2(f.centis \div 100) \o "."
            \o Pad2(f.centis % 100)

\* f"{db}" for an int or a float holding a whole number
DbText(db) == IF db.float THEN ToString(db.value) \o ".0" ELSE ToString(db.value)

FFMPEG_BIN == "ffmpeg.exe"

\* The filter selecting the stream by the position among the active tracks.
FilterPart_by_position(t, i) ==
    "[0:a:" \o ToString(i) \o "]volume=" \o DbText(t.current_db)
        \o "dB[a" \o ToString(i) \o "]"

\* f"[0:a:{t.index}]volume={db}dB[a{i}]" for the i-th (from 0) active track
FilterPart(t, i) ==
    "[0:a:" \o ToString(t.index) \o "]volume=" \o DbText(t.current_db)
        \o "dB[a" \o ToString(i) \o "]"

RECURSIVE JoinParts(_, _)
\* ';'.join(filter_parts) for the active tracks from the k-th on
JoinParts(active, k) ==
    IF k > Len(active) THEN ""
    ELSE FilterPart(active[k], k - 1)
         \o (IF k < Len(active) THEN ";" ELSE "")
         \o JoinParts(active, k + 1)

RECURSIVE MixIns(_, _)
\* mix_ins: "[a0][a1]..."
MixIns(active, k) ==
    IF k > Len(active) THEN ""
    ELSE "[a" \o ToString(k - 1) \o "]" \o MixIns(active, k + 1)

\* complex_filter of MainWindow.export
ComplexFilter(active) ==
    JoinParts(active, 1) \o ";" \o MixIns(active, 1) \o "amix=inputs="
        \o ToString(Len(active)) \o "[outa];[outa]dynaudnorm[a_final]"

\* active = [t for t in self.tracks if t.checkbox.isChecked()]
IsChecked(t) == t.checked

\* Every track taken as active, whatever its checkbox says.
AllTracks(trs) == trs

\* [t for t in self.tracks if t.checkbox.isChecked()]
ActiveTracks(trs) == SelectSeq(trs, IsChecked)

\* The argument list MainWindow.export hands to ExportThread.
ExportCommand(path, start_ms, end_ms, precise, active, out_path) ==
    <<FFMPEG_BIN, "-y", "-ss", format_time(start_ms), "-to", format_time(end_ms),
      "-i", path>>
    \o (IF precise
        THEN <<"-map", "0:v", "-c:v", "libx264", "-crf", "18", "-preset", "fast">>
        ELSE <<"-map", "0:v", "-c:v", "copy">>)
    \o <<"-filter_complex", ComplexFilter(active), "-map", "[a_final]",
         "-c:a", "aac", "-b:a", "192k", out_path>>

----------------------------------------------------------------------------
(* MainWindow (src/main.py): handlers *)

\* Bounds of the model: generations of track widgets whose extractor
\* threads can be alive together, and export threads alive together.
MaxGenerations == 3

MaxExports == 2

\* Track indexes that name a preview file track_<index>.wav.
TrackIndexes == 0..1

\* fps = num / den if den > 0 else 30.0
Fps(rate) == IF rate[2] > 0 THEN rate ELSE <<30, 1>>

\* int(1000 / self.fps)
FrameStep == TruncDiv(1000 * fps[2], fps[1])

\* Identities of the widget generations whose extractors still run.
LiveIds == {th.id : th \in extractors}

\* The identity of the widgets load_video creates next.
NewId == CHOOSE n \in 1..MaxGenerations :
            /\ n \notin LiveIds
            /\ \A k \in 1..(n - 1) : k \in LiveIds

MainInit ==
    /\ video_path = NoMedia
    /\ fps = <<30, 1>>
    /\ screen = 0
    /\ player = NewPlayer
    /\ timeline = NewTimeline
    /\ tracks = <<>>
    /\ extractors = {}
    /\ ready = {}
    /\ files = [i \in TrackIndexes |-> NoContent]
    /\ btn_export = TRUE
    /\ exporter = <<>>
    /\ dialog = ""
    /\ keyframes = <<>>
    /\ kf_loaders = {}

\* for t in self.tracks: t.cleanup(); t.deleteLater()  and  self.tracks = []:
\* the widgets are disconnected from their extractors and deleted, so a
\* finished_extraction signal still pending for them is never delivered.
\* The extractor threads themselves keep running.
CleanupTracks ==
    /\ tracks' = <<>>
    /\ ready' = {}

\* MainWindow.close_video
close_video ==
    /\ video_path # NoMedia
    /\ LET p1 == PlayerSetSource(PlayerStop(player), NoMedia)
       IN  /\ player' = p1
           /\ timeline' = NotifyPosition(player, p1, timeline, tracks).timeline
    /\ CleanupTracks
    /\ keyframes' = <<>>
    /\ video_path' = NoMedia
    /\ screen' = 0
    /\ UNCHANGED <<fps, extractors, files, btn_export, exporter, dialog, kf_loaders>>

\* MainWindow.load_video(path)
load_video(path) ==
    /\ \E n \in 1..MaxGenerations : n \notin LiveIds
    /\ video_path' = path
    /\ screen' = 1
    /\ LET p1 == PlayerSetSource(player, path)
           tl == NotifyPosition(player, p1, timeline, tracks).timeline
           n  == AudioStreams(path)
       IN  /\ timeline' = tl
           /\ IF ~ProbeOk(path)
              THEN /\ player' = p1
                   /\ tracks' = <<>>
                   /\ ready' = {}
                   /\ dialog' = "Error loading"
                   /\ UNCHANGED <<fps, extractors, kf_loaders>>
              ELSE /\ fps' = Fps(FrameRateOf(path))
                   /\ tracks' = [i \in 1..n |-> NewTrack(i - 1, NewId)]
                   /\ ready' = {}
                   /\ extractors' = extractors \cup
                          {[id |-> NewId, index |-> i, media |-> path] : i \in 0..(n - 1)}
                   /\ kf_loaders' = kf_loaders \cup {path}
                   /\ player' = PlayerPlay(p1)
                   /\ UNCHANGED dialog
    /\ UNCHANGED <<files, btn_export, exporter, keyframes>>

\* KeyframeLoaderThread.run for the clip m has emitted keyframes_found:
\* MainWindow.on_keyframes_loaded
on_keyframes_loaded(m) ==
    /\ m \in kf_loaders
    /\ kf_loaders' = kf_loaders \ {m}
    /\ LET kfs == sorted(KeyframesOf(m))
           n   == on_position_changed(kfs, timeline, tracks, player.position)
       IN  /\ keyframes' = kfs
           /\ timeline' = n.timeline
           /\ tracks' = n.tracks
    /\ UNCHANGED <<video_path, fps, screen, player, extractors, ready, files,
                   btn_export, exporter, dialog>>

\* The master player has loaded its source: durationChanged(dur) reaches
\* MainWindow.on_duration_changed, which calls MainTimeline.set_duration.
on_duration_changed ==
    /\ player.status = "loading"
    /\ LET dur == DurationOf(player.source)
       IN  /\ player' = [player EXCEPT !.status = "loaded", !.duration = dur]
           /\ timeline' = set_duration(timeline, dur)
    /\ UNCHANGED <<keyframes, kf_loaders, video_path, fps, screen, tracks, extractors, ready,
                   files, btn_export, exporter, dialog>>

\* The master player plays on to position pos: positionChanged(pos).
PositionTick(pos) ==
    /\ player.status = "loaded"
    /\ player.state = "playing"
    /\ pos > player.position
    /\ pos <= player.duration
    /\ LET p1 == [player EXCEPT !.position = pos]
           n  == NotifyPosition(player, p1, timeline, tracks)
       IN  /\ player' = p1
           /\ timeline' = n.timeline
           /\ tracks' = n.tracks
    /\ UNCHANGED <<keyframes, kf_loaders, video_path, fps, screen, extractors, ready, files,
                   btn_export, exporter, dialog>>

\* MainWindow.toggle_play
toggle_play ==
    /\ screen = 1
    /\ IF player.state = "playing"
       THEN /\ player' = PlayerPause(player)
            /\ tracks' = ForAll(tracks, sync_pause)
       ELSE /\ player' = PlayerPlay(player)
            /\ tracks' = ForAll(tracks, sync_play)
    /\ UNCHANGED <<keyframes, kf_loaders, video_path, fps, screen, timeline, extractors, ready,
                   files, btn_export, exporter, dialog>>

\* MainWindow.seek_all(ms) applied to a player, a timeline and the tracks
\* The tracks brought along by sync_position, within its tolerance.
SeekAll_with_tolerance(p, tl, trs, ms) ==
    LET p1 == PlayerSetPosition(p, ms)
        n  == NotifyPosition(p, p1, tl, trs)
        f(t) == sync_position(t, ms)
    IN  [player |-> p1, timeline |-> n.timeline, tracks |-> ForAll(n.tracks, f)]

SeekAll(p, tl, trs, ms) ==
    LET p1 == PlayerSetPosition(p, ms)
        n  == NotifyPosition(p, p1, tl, trs)
        f(t) == TrackSetPosition(t, ms)
    IN  [player |-> p1, timeline |-> n.timeline, tracks |-> ForAll(n.tracks, f)]

\* MainTimeline.mousePressEvent / mouseMoveEvent -> seek_requested(ms) ->
\* MainWindow.seek_all(ms)
seek_all(ms) ==
    /\ screen = 1
    /\ timeline.duration > 0
    /\ LET r == SeekAll(player, timeline, tracks, ms)
       IN  /\ player' = r.player
           /\ timeline' = r.timeline
           /\ tracks' = r.tracks
    /\ UNCHANGED <<keyframes, kf_loaders, video_path, fps, screen, extractors, ready, files,
                   btn_export, exporter, dialog>>

\* MainWindow.step_fwd (dir = 1) and MainWindow.step_back (dir = -1)
Step(dir) ==
    /\ screen = 1
    /\ LET p0 == PlayerPause(player)
           t0 == ForAll(tracks, sync_pause)
           r  == SeekAll(p0, timeline, t0, p0.position + dir * FrameStep)
       IN  /\ player' = r.player
           /\ timeline' = r.timeline
           /\ tracks' = r.tracks
    /\ UNCHANGED <<keyframes, kf_loaders, video_path, fps, screen, extractors, ready, files,
                   btn_export, exporter, dialog>>

step_fwd == Step(1)

step_back == Step(-1)

\* MainWindow.set_in_point
MainWindow_set_in_point ==
    /\ screen = 1
    /\ timeline' = set_in_point(timeline)
    /\ UNCHANGED <<keyframes, kf_loaders, video_path, fps, screen, player, tracks, extractors,
                   ready, files, btn_export, exporter, dialog>>

\* MainWindow.set_out_point
MainWindow_set_out_point ==
    /\ screen = 1
    /\ timeline' = set_out_point(timeline)
    /\ UNCHANGED <<keyframes, kf_loaders, video_path, fps, screen, player, tracks, extractors,
                   ready, files, btn_export, exporter, dialog>>

----------------------------------------------------------------------------
(* Track controls, extraction and export (src/main.py, src/workers.py) *)

SetTrack(i, t) == tracks' = [tracks EXCEPT ![i] = t]

track_unchanged ==
    UNCHANGED <<keyframes, kf_loaders, video_path, fps, screen, player, timeline, extractors,
                ready, files, btn_export, exporter, dialog>>

\* checkbox.toggled -> AudioTrackWidget.on_toggle_active
ToggleActive(i) ==
    /\ i \in 1..Len(tracks)
    /\ SetTrack(i, on_toggle_active(tracks[i], ~tracks[i].checked))
    /\ track_unchanged

\* The value a slider or spin box takes for a requested value, without range.
WidgetValue_unbounded(val) == val

\* QSlider / QDoubleSpinBox with setRange(-30, 30): the value the widget
\* takes when the user asks for val.
WidgetValue(val) == Clamp(val, GAIN_MIN, GAIN_MAX)

\* The user moves the slider towards val:
\* slider.valueChanged -> AudioTrackWidget.on_gain_change
GainChange(i, val) ==
    /\ i \in 1..Len(tracks)
    /\ tracks[i].current_db.value # WidgetValue(val)
    /\ SetTrack(i, on_gain_change(tracks[i], WidgetValue(val)))
    /\ track_unchanged

\* The user enters val in the spin box:
\* spin.valueChanged -> AudioTrackWidget.on_spin_change
SpinChange(i, val) ==
    /\ i \in 1..Len(tracks)
    /\ tracks[i].current_db.value # WidgetValue(val)
    /\ SetTrack(i, on_spin_change(tracks[i], WidgetValue(val)))
    /\ track_unchanged

\* The player of a playing track advances on its own clock to pos.
TrackTick(i, pos) ==
    /\ i \in 1..Len(tracks)
    /\ tracks[i].pstate = "playing"
    /\ Exists(tracks[i].source) /\ tracks[i].source # Corrupt
    /\ pos > tracks[i].ppos
    /\ pos <= DurationOf(tracks[i].source.media)
    /\ SetTrack(i, [tracks[i] EXCEPT !.ppos = pos])
    /\ track_unchanged

\* What ffmpeg leaves at output_path: the decoded stream, nothing new (it
\* failed before opening the output), or a file wave.open cannot read.
ExtractOutcomes == {"ok", "nofile", "corrupt"}

Written(th, outcome, old) ==
    CASE outcome = "ok" -> Decoded(th.media, th.index)
      [] outcome = "corrupt" -> Corrupt
      [] OTHER -> old

\* AudioExtractorThread.run: ffmpeg writes track_<index>.wav in the shared
\* temp_dir, then finished_extraction is emitted (queued to the GUI thread
\* when the widget that started the thread is still connected).
ExtractorRun(th, outcome) ==
    /\ th \in extractors
    /\ files' = [files EXCEPT ![th.index] = Written(th, outcome, files[th.index])]
    /\ extractors' = extractors \ {th}
    /\ ready' = IF \E i \in 1..Len(tracks) :
                      tracks[i].id = th.id /\ tracks[i].index = th.index
                THEN ready \cup {[id |-> th.id, index |-> th.index]}
                ELSE ready
    /\ UNCHANGED <<keyframes, kf_loaders, video_path, fps, screen, player, timeline, tracks,
                   btn_export, exporter, dialog>>

\* finished_extraction handed to the first track that waits for one.
OnReady_in_order(sig) ==
    /\ sig \in ready
    /\ \E i \in 1..Len(tracks) :
          /\ tracks[i].source = NoContent
          /\ \A j \in 1..(i - 1) : tracks[j].source # NoContent
          /\ SetTrack(i, on_ready(tracks[i], files[sig.index], player))
    /\ ready' = ready \ {sig}
    /\ UNCHANGED <<keyframes, kf_loaders, video_path, fps, screen, player, timeline, extractors,
                   files, btn_export, exporter, dialog>>

\* finished_extraction delivered: AudioTrackWidget.on_ready(path, idx)
OnReady(sig) ==
    /\ sig \in ready
    /\ \E i \in 1..Len(tracks) :
          /\ tracks[i].id = sig.id
          /\ tracks[i].index = sig.index
          /\ SetTrack(i, on_ready(tracks[i], files[sig.index], player))
    /\ ready' = ready \ {sig}
    /\ UNCHANGED <<keyframes, kf_loaders, video_path, fps, screen, player, timeline, extractors,
                   files, btn_export, exporter, dialog>>

\* MainWindow.export with the path of the save dialog or of the auto-save
\* rule ("" when the dialog was cancelled) and the precise-cut checkbox.
export(out_path, precise) ==
    /\ screen = 1
    /\ btn_export
    /\ video_path # NoMedia
    /\ Len(exporter) < MaxExports
    /\ LET start_ms    == timeline.in_point
           end_ms      == timeline.out_point
           duration_ms == end_ms - start_ms
           active      == ActiveTracks(tracks)
       IN  IF duration_ms <= 0
           THEN /\ dialog' = "Invalid selection."
                /\ UNCHANGED <<player, tracks, btn_export, exporter>>
           ELSE IF out_path = ""
           THEN UNCHANGED <<player, tracks, btn_export, exporter, dialog>>
           ELSE IF active = <<>>
           THEN /\ dialog' = "No active tracks."
                /\ UNCHANGED <<player, tracks, btn_export, exporter>>
           ELSE /\ player' = PlayerPause(player)
                /\ tracks' = ForAll(tracks, sync_pause)
                /\ btn_export' = FALSE
                /\ exporter' = Append(exporter,
                       [cmd |-> ExportCommand(video_path, start_ms, end_ms,
                                              precise, active, out_path),
                        total_duration |-> duration_ms])
                /\ UNCHANGED dialog
    /\ UNCHANGED <<keyframes, kf_loaders, video_path, fps, screen, timeline, extractors, ready, files>>

\* ExportThread.run ends and emits finished(success, msg):
\* MainWindow.on_export_done
on_export_done(k, success) ==
    /\ k \in 1..Len(exporter)
    /\ exporter' = [j \in 1..(Len(exporter) - 1) |->
                        IF j < k THEN exporter[j] ELSE exporter[j + 1]]
    /\ btn_export' = TRUE
    /\ dialog' = IF success THEN "Export completed successfully!"
                 ELSE "Export failed (ffmpeg error)."
    /\ UNCHANGED <<keyframes, kf_loaders, video_path, fps, screen, player, timeline, tracks,
                   extractors, ready, files>>

----------------------------------------------------------------------------
(* The mixer (src/mixer.py): AudioTrackWidget, ProgressButton, MainWindow  *)

\* AudioTrackWidget.__init__: the checkbox is checked, the spin box shows
\* 0.0 and the QAudioOutput starts at Qt's default volume 1.0.
mixer_NewTrack(index, id) ==
    [index |-> index, id |-> id, checked |-> TRUE, db |-> 0,
     samples |-> NoContent, gain_db |-> 0, source |-> NoContent,
     play_btn |-> FALSE, pstate |-> "stopped", volume |-> FullLevel]

\* AudioTrackWidget.update_realtime_volume(db_val)
update_realtime_volume(w, db_val) ==
    [w EXCEPT !.volume = HeadroomLevel(db_val), !.gain_db = db_val]

\* AudioTrackWidget.on_slider_change / on_spin_change: both widgets show val
mixer_on_spin_change(w, val) == update_realtime_volume([w EXCEPT !.db = val], val)

\* AudioTrackWidget.on_extraction_finished(path, idx)
on_extraction_finished(w, content) ==
    IF Exists(content)
    THEN update_realtime_volume(
             [w EXCEPT !.play_btn = TRUE,
                       !.samples = IF content = Corrupt THEN w.samples ELSE content,
                       !.source = content],
             w.db)
    ELSE w

\* AudioTrackWidget.toggle_playback
toggle_playback(w) ==
    IF w.pstate = "playing" THEN [w EXCEPT !.pstate = "paused"]
    ELSE IF Exists(w.source) THEN [w EXCEPT !.pstate = "playing"] ELSE w

\* ProgressButton.start_export_mode / reset_mode / setEnabled
start_export_mode(b) == [enabled |-> FALSE, is_exporting |-> TRUE, progress |-> 0]

reset_mode(b) == [enabled |-> TRUE, is_exporting |-> FALSE, progress |-> 0]

setEnabled(b, flag) == [b EXCEPT !.enabled = flag]

\* f"[{input_label}]volume={db_val}dB[{output_label}]" with the spin box value
mixer_FilterPart(w, i) ==
    "[0:a:" \o ToString(w.index) \o "]volume=" \o DbText(FloatDb(w.db))
        \o "dB[a" \o ToString(i) \o "]"

RECURSIVE mixer_JoinParts(_, _)
mixer_JoinParts(active, k) ==
    IF k > Len(active) THEN ""
    ELSE mixer_FilterPart(active[k], k - 1)
         \o (IF k < Len(active) THEN ";" ELSE "")
         \o mixer_JoinParts(active, k + 1)

\* final_filter of MainWindow.start_export
mixer_FinalFilter(active) ==
    mixer_JoinParts(active, 1) \o ";" \o MixIns(active, 1) \o "amix=inputs="
        \o ToString(Len(active)) \o "[mixed];[mixed]dynaudnorm[aout]"

\* The argument list MainWindow.start_export hands to ExportThread.
mixer_ExportCommand(path, active, out_path) ==
    <<FFMPEG_BIN, "-y", "-i", path, "-map", "0:v", "-c:v", "copy",
      "-filter_complex", mixer_FinalFilter(active), "-map", "[aout]",
      "-c:a", "aac", "-b:a", "192k", out_path>>

MixerInit ==
    /\ current_video_path = NoMedia
    /\ video_duration = 0
    /\ track_widgets = <<>>
    /\ mixer_extractors = {}
    /\ mixer_ready = {}
    /\ preview_files = [i \in TrackIndexes |-> NoContent]
    /\ export_btn = [enabled |-> FALSE, is_exporting |-> FALSE, progress |-> 0]
    /\ export_thread = <<>>
    /\ mixer_dialog = ""

mixer_LiveIds == {th.id : th \in mixer_extractors}

mixer_NewId == CHOOSE n \in 1..MaxGenerations :
                  /\ n \notin mixer_LiveIds
                  /\ \A k \in 1..(n - 1) : k \in mixer_LiveIds

\* MainWindow.close_clip as a state change of the export button
CloseClipButton(b) == setEnabled(reset_mode(b), FALSE)

\* MainWindow.close_clip (a click on the loaded clip)
close_clip ==
    /\ current_video_path # NoMedia
    /\ track_widgets' = <<>>
    /\ mixer_ready' = {}
    /\ current_video_path' = NoMedia
    /\ video_duration' = 0
    /\ export_btn' = CloseClipButton(export_btn)
    /\ UNCHANGED <<mixer_extractors, preview_files, export_thread, mixer_dialog>>

\* MainWindow.load_video(path): close_clip(), then probe and build the tracks;
\* a failed probe or a clip without audio streams closes the clip again.
mixer_load_video(path) ==
    /\ \E n \in 1..MaxGenerations : n \notin mixer_LiveIds
    /\ mixer_ready' = {}
    /\ UNCHANGED <<preview_files, export_thread>>
    /\ LET n == AudioStreams(path)
       IN  IF ~ProbeOk(path) \/ n = 0
           THEN /\ mixer_dialog' = IF ProbeOk(path) THEN "No audio tracks found."
                                   ELSE "Error"
                /\ current_video_path' = NoMedia
                /\ video_duration' = 0
                /\ track_widgets' = <<>>
                /\ export_btn' = CloseClipButton(export_btn)
                /\ UNCHANGED mixer_extractors
           ELSE /\ current_video_path' = path
                /\ video_duration' = DurationOf(path)
                /\ track_widgets' = [i \in 1..n |-> mixer_NewTrack(i - 1, mixer_NewId)]
                /\ mixer_extractors' = mixer_extractors \cup
                       {[id |-> mixer_NewId, index |-> i, media |-> path] : i \in 0..(n - 1)}
                /\ export_btn' = setEnabled(CloseClipButton(export_btn), TRUE)
                /\ UNCHANGED mixer_dialog

mixer_track_unchanged ==
    UNCHANGED <<current_video_path, video_duration, mixer_extractors,
                mixer_ready, preview_files, export_btn, export_thread, mixer_dialog>>

\* A click on the track's checkbox (read by start_export only)
mixer_ToggleChecked(i) ==
    /\ i \in 1..Len(track_widgets)
    /\ track_widgets' = [track_widgets EXCEPT ![i].checked = ~track_widgets[i].checked]
    /\ mixer_track_unchanged

\* volume_slider.valueChanged / db_spin.valueChanged
mixer_GainChange(i, val) ==
    /\ i \in 1..Len(track_widgets)
    /\ val \in GAIN_MIN..GAIN_MAX
    /\ track_widgets[i].db # val
    /\ track_widgets' = [track_widgets EXCEPT ![i] = mixer_on_spin_change(track_widgets[i], val)]
    /\ mixer_track_unchanged

\* play_btn.clicked -> toggle_playback
mixer_TogglePlayback(i) ==
    /\ i \in 1..Len(track_widgets)
    /\ track_widgets[i].play_btn
    /\ track_widgets' = [track_widgets EXCEPT ![i] = toggle_playback(track_widgets[i])]
    /\ mixer_track_unchanged

\* AudioExtractorThread.run (src/mixer.py)
mixer_ExtractorRun(th, outcome) ==
    /\ th \in mixer_extractors
    /\ preview_files' = [preview_files EXCEPT
                            ![th.index] = Written(th, outcome, preview_files[th.index])]
    /\ mixer_extractors' = mixer_extractors \ {th}
    /\ mixer_ready' = IF \E i \in 1..Len(track_widgets) :
                            track_widgets[i].id = th.id /\ track_widgets[i].index = th.index
                      THEN mixer_ready \cup {[id |-> th.id, index |-> th.index]}
                      ELSE mixer_ready
    /\ UNCHANGED <<current_video_path, video_duration, track_widgets, export_btn,
                   export_thread, mixer_dialog>>

\* finished_extraction delivered: AudioTrackWidget.on_extraction_finished
mixer_OnExtractionFinished(sig) ==
    /\ sig \in mixer_ready
    /\ \E i \in 1..Len(track_widgets) :
          /\ track_widgets[i].id = sig.id
          /\ track_widgets[i].index = sig.index
          /\ track_widgets' = [track_widgets EXCEPT
                ![i] = on_extraction_finished(track_widgets[i], preview_files[sig.index])]
    /\ mixer_ready' = mixer_ready \ {sig}
    /\ UNCHANGED <<current_video_path, video_duration, mixer_extractors,
                   preview_files, export_btn, export_thread, mixer_dialog>>

\* for w in self.track_widgets: w.player.stop()
mixer_StopAll(ws) == [i \in 1..Len(ws) |-> [ws[i] EXCEPT !.pstate = "stopped"]]

\* MainWindow.start_export (a click on the enabled export button)
start_export(out_path) ==
    /\ export_btn.enabled
    /\ Len(export_thread) < MaxExports
    /\ LET active == ActiveTracks(track_widgets)
       IN  IF current_video_path = NoMedia
           THEN UNCHANGED <<track_widgets, export_btn, export_thread, mixer_dialog>>
           ELSE IF active = <<>>
           THEN /\ mixer_dialog' = "Select at least one track."
                /\ UNCHANGED <<track_widgets, export_btn, export_thread>>
           ELSE /\ track_widgets' = mixer_StopAll(track_widgets)
                /\ IF out_path = ""
                   THEN UNCHANGED <<export_btn, export_thread, mixer_dialog>>
                   ELSE /\ export_btn' = start_export_mode(export_btn)
                        /\ export_thread' = Append(export_thread,
                               [cmd |-> mixer_ExportCommand(current_video_path, active, out_path),
                                total_duration |-> video_duration])
                        /\ UNCHANGED mixer_dialog
    /\ UNCHANGED <<current_video_path, video_duration, mixer_extractors,
                   mixer_ready, preview_files>>

\* ExportThread.progress_update -> ProgressButton.set_progress
mixer_set_progress(k, val) ==
    /\ k \in 1..Len(export_thread)
    /\ export_thread[k].total_duration > 0
    /\ export_btn' = [export_btn EXCEPT !.progress = val]
    /\ UNCHANGED <<current_video_path, video_duration, track_widgets,
                   mixer_extractors, mixer_ready, preview_files, export_thread,
                   mixer_dialog>>

\* ExportThread.run ends and emits finished: MainWindow.on_export_finished
on_export_finished(k, success) ==
    /\ k \in 1..Len(export_thread)
    /\ export_thread' = [j \in 1..(Len(export_thread) - 1) |->
                            IF j < k THEN export_thread[j] ELSE export_thread[j + 1]]
    /\ export_btn' = reset_mode(export_btn)
    /\ mixer_dialog' = IF success THEN "Export completed!" ELSE "Error during export."
    /\ UNCHANGED <<current_video_path, video_duration, track_widgets,
                   mixer_extractors, mixer_ready, preview_files>>

----------------------------------------------------------------------------
(* WaveformWidget.load_data (src/main.py), load_audio_data (src/mixer.py)  *)

ENVELOPE_TARGET == 2000

FULL_SCALE == 32768

\* The k-th 16-bit sample (k from 0) of a file filled with a given shape.
Sample(shape, k) ==
    CASE shape = "silence" -> 0
      [] shape = "floor" -> -32768
      [] shape = "peak" -> 32767
      [] shape = "spike" -> IF k % 4 = 1 THEN -32768 ELSE 0
      [] OTHER -> ((k * 7919) % 65536) - 32768

SetMax(S) == CHOOSE x \in S : \A y \in S : y <= x

\* The first sample of the chunk instead of its peak.
ChunkPeak_first(shape, count, i, step) == Abs(Sample(shape, i))

\* max(abs(x) for x in samples[i:i+step]), the numerator of val
ChunkPeak(shape, count, i, step) ==
    SetMax({Abs(Sample(shape, k)) : k \in i..(Min(i + step, count) - 1)})

\* step = max(1, count // target)
EnvelopeStep(count) == Max(1, count \div ENVELOPE_TARGET)

\* The list built by `for i in range(0, count, step)`: one peak per chunk.
BuildEnvelope(shape, count) ==
    LET step == EnvelopeStep(count)
        n    == (count + step - 1) \div step
    IN  [j \in 1..n |-> ChunkPeak(shape, count, (j - 1) * step, step)]

CountInputs == 0..6 \cup {2000, 3999, 4000}

ShapeInputs == {"silence", "floor", "ramp", "spike"}

WaveInit ==
    /\ wav \in [count : CountInputs, shape : ShapeInputs]
    /\ samples = <<>>

\* ffmpeg overwrites the file (-y) with another extraction.
WriteWav(count, shape) ==
    /\ wav' = [count |-> count, shape |-> shape]
    /\ UNCHANGED samples

\* WaveformWidget.load_data(file_path) on the existing file
WaveformLoad ==
    /\ UNCHANGED wav
    /\ samples' = BuildEnvelope(wav.shape, wav.count)

----------------------------------------------------------------------------
(* ExportThread (src/workers.py, src/mixer.py)                             *)

MaxLines == 3

NoProcess == [state |-> "none", returncode |-> -1, killed |-> FALSE]

\* int((current_seconds / total_duration) * 100), with the time token in
\* hundredths of a second and the total in ms
Percent(cs, total) == (cs * 10 * 100) \div total

\* The percentage emitted as computed, without the cap.
ProgressValue_uncapped(cs, total) == Percent(cs, total)

\* The value handed to progress_update.emit for a line with a time token.
ProgressValue(cs, total) == Min(99, Percent(cs, total))

\* One emission, with the state of the process when it was made.
Emission(value) ==
    [value |-> value, state |-> process.state, returncode |-> process.returncode,
     announced |-> finished # <<>>]

\* Popen.terminate()
terminate(p) == IF p.state = "running" THEN [p EXCEPT !.killed = TRUE] ELSE p

TotalInputs == {0, 6000, 10000}

TimeTokens == {0, 300, 600, 1000, 1200}

RunInit ==
    /\ total_duration \in TotalInputs
    /\ is_running = TRUE
    /\ process = NoProcess
    /\ thread_pc = "start"
    /\ progress_update = <<>>
    /\ finished = <<>>

\* subprocess.Popen(self.cmd, ...): the process starts, or Popen raises and
\* the except clause emits finished(False, ...).
Popen(ok) ==
    /\ thread_pc = "start"
    /\ IF ok
       THEN /\ process' = [NoProcess EXCEPT !.state = "running"]
            /\ thread_pc' = "reading"
            /\ UNCHANGED finished
       ELSE /\ finished' = Append(finished, FALSE)
            /\ thread_pc' = "done"
            /\ UNCHANGED process
    /\ UNCHANGED <<total_duration, is_running, progress_update>>

\* One iteration of `for line in self.process.stdout`; the line carries a
\* time token (match, in hundredths of a second) or none.
ReadLine(match, cs) ==
    /\ thread_pc = "reading"
    /\ Len(progress_update) < MaxLines
    /\ IF ~is_running
       THEN /\ process' = terminate(process)
            /\ thread_pc' = "done"
            /\ UNCHANGED progress_update
       ELSE /\ progress_update' =
                  IF match /\ total_duration > 0
                  THEN Append(progress_update,
                              Emission(ProgressValue(cs, total_duration)))
                  ELSE progress_update
            /\ UNCHANGED <<process, thread_pc>>
    /\ UNCHANGED <<total_duration, is_running, finished>>

\* The process closed its output: the loop ends and run reaches wait().
EndOfOutput ==
    /\ thread_pc = "reading"
    /\ thread_pc' = "waiting"
    /\ UNCHANGED <<total_duration, is_running, process, progress_update, finished>>

\* The ffmpeg process exits; a terminated process exits with a failure code.
ProcessExit(rc) ==
    /\ process.state = "running"
    /\ process.killed => rc # 0
    /\ process' = [process EXCEPT !.state = "exited", !.returncode = rc]
    /\ UNCHANGED <<total_duration, is_running, thread_pc, progress_update, finished>>

\* self.process.wait() returns; the return code decides what is emitted.
WaitReturns ==
    /\ thread_pc = "waiting"
    /\ process.state = "exited"
    /\ IF process.returncode = 0
       THEN /\ progress_update' = Append(progress_update, Emission(100))
            /\ finished' = Append(finished, TRUE)
       ELSE /\ finished' = Append(finished, FALSE)
            /\ UNCHANGED progress_update
    /\ thread_pc' = "done"
    /\ UNCHANGED <<total_duration, is_running, process>>

\* ExportThread.stop()
stop ==
    /\ is_running
    /\ is_running' = FALSE
    /\ process' = terminate(process)
    /\ UNCHANGED <<total_duration, thread_pc, progress_update, finished>>

----------------------------------------------------------------------------
(* Specifications *)

\* The parts a session does not use stay as constructed.
WaveIdle == wav = [count |-> 0, shape |-> "silence"] /\ samples = <<>>

RunIdle == RunInit /\ total_duration = 0

Init == MainInit /\ MixerInit /\ WaveIdle /\ RunIdle

(* The transport of the editor: clips without audio tracks are opened,     *)
(* played, seeked, stepped and trimmed.                                    *)

\* Positions the playing master reports, and positions a click or a drag
\* on the timeline asks for (a drag can leave the widget on either side).
TickInputs == {25, 50, 75, 100}

SeekInputs == {-10, 40, 60, 110}

OutPaths == {"", "clip_cut.mp4"}

TransportNext ==
    \/ \E m \in SilentMedia \cup BrokenMedia : load_video(m) /\ UNCHANGED not_main
    \/ close_video /\ UNCHANGED not_main
    \/ on_duration_changed /\ UNCHANGED not_main
    \/ \E pos \in TickInputs : PositionTick(pos) /\ UNCHANGED not_main
    \/ toggle_play /\ UNCHANGED not_main
    \/ \E ms \in SeekInputs : seek_all(ms) /\ UNCHANGED not_main
    \/ step_fwd /\ UNCHANGED not_main
    \/ step_back /\ UNCHANGED not_main
    \/ MainWindow_set_in_point /\ UNCHANGED not_main
    \/ MainWindow_set_out_point /\ UNCHANGED not_main
    \/ \E o \in OutPaths, precise \in BOOLEAN : export(o, precise) /\ UNCHANGED not_main

SpecTransport == Init /\ [][TransportNext]_vars

\* C1: in every state reached by loading, position updates, seeks, frame
\* steps, set_in_point, set_out_point and duration changes, the trim markers
\* satisfy 0 <= in_point <= out_point <= duration.
C1_TrimInvariant ==
    /\ 0 <= timeline.in_point
    /\ timeline.in_point <= timeline.out_point
    /\ timeline.out_point <= timeline.duration

\* Both markers were moved inside the clip.
C1_Witness ==
    /\ 0 < timeline.in_point
    /\ timeline.in_point < timeline.out_point
    /\ timeline.out_point < timeline.duration

C12_Notices == {"Error loading", "No audio tracks found."}

\* C12: when probing a file fails, or the file has no audio stream, a notice
\* is shown and the session is back in the no-media state: no media path, no
\* tracks, the start screen, a master player without source.
C12_ProbeFailureResets ==
    [][\A m \in SilentMedia \cup BrokenMedia :
          load_video(m) =>
              /\ dialog' \in C12_Notices
              /\ video_path' = NoMedia
              /\ tracks' = <<>>
              /\ screen' = 0
              /\ player'.source = NoMedia]_vars

\* C13: after the load of a new clip the transport is at position 0 with the
\* in-point at 0 and the out-point at the duration, whatever was set on the
\* clip loaded before: when load_video returns (with the duration the
\* transport holds then) and when the duration of the new clip is known.
C13_LoadResetsTransport ==
    [][/\ \A m \in SilentMedia \ {video_path} :
             load_video(m) =>
                 /\ timeline'.position = 0
                 /\ timeline'.in_point = 0
                 /\ timeline'.out_point = timeline'.duration
       /\ (on_duration_changed /\ ProbeOk(video_path)) =>
                 /\ timeline'.position = 0
                 /\ timeline'.in_point = 0
                 /\ timeline'.out_point = DurationOf(video_path)]_vars

\* C14: every seek, those of step_back at position 0 and of step_fwd at the
\* end of the clip included, hands the players a position clamped to
\* [0, duration]: never negative, never beyond the duration.
C14_SeekClamped ==
    [][player'.requested # player.requested =>
          /\ 0 <= player'.requested
          /\ player'.requested <= timeline.duration]_vars

\* C18: set_in_point puts the in-point at the current position; the out-point
\* goes to the duration exactly when the new in-point is beyond it and is
\* left alone otherwise; position and duration do not change.
C18_SetInPoint ==
    [][MainWindow_set_in_point =>
          /\ timeline'.in_point = timeline.position
          /\ timeline'.out_point =
                 IF timeline.position > timeline.out_point
                 THEN timeline.duration ELSE timeline.out_point
          /\ timeline'.position = timeline.position
          /\ timeline'.duration = timeline.duration]_vars

\* The in-point was set beyond the out-point, which went back to the end.
C18_Witness ==
    /\ timeline.in_point = timeline.position
    /\ timeline.in_point = 75
    /\ timeline.out_point = timeline.duration
    /\ timeline.duration = 100

\* C19: set_out_point puts the out-point at the current position; the
\* in-point goes to 0 exactly when the new out-point is before it and is left
\* alone otherwise, so the range is never left inverted.
C19_SetOutPoint ==
    [][MainWindow_set_out_point =>
          /\ timeline'.out_point = timeline.position
          /\ timeline'.in_point =
                 IF timeline.position < timeline.in_point
                 THEN 0 ELSE timeline.in_point
          /\ timeline'.in_point <= timeline'.out_point
          /\ timeline'.position = timeline.position
          /\ timeline'.duration = timeline.duration]_vars

\* The out-point was set at a position inside the clip; the in-point is 0.
C19_Witness ==
    /\ timeline.out_point = timeline.position
    /\ timeline.out_point = 25
    /\ timeline.in_point = 0
    /\ timeline.duration = 100

----------------------------------------------------------------------------
(* Sessions of the editor with audio clips: extraction of the previews.    *)

\* Clips are replaced at any moment; every extraction succeeds.
RaceNext ==
    \/ \E m \in AudioMedia : load_video(m) /\ UNCHANGED not_main
    \/ close_video /\ UNCHANGED not_main
    \/ on_duration_changed /\ UNCHANGED not_main
    \/ toggle_play /\ UNCHANGED not_main
    \/ \E th \in extractors : ExtractorRun(th, "ok") /\ UNCHANGED not_main
    \/ \E sig \in ready : OnReady(sig) /\ UNCHANGED not_main

SpecRace == Init /\ [][RaceNext]_vars

\* The track at position i shows nothing, or what was decoded from its own
\* stream of the clip that is loaded now.
C4_OwnContent(i, content) ==
    content \in {NoContent, Decoded(video_path, tracks[i].index)}

\* C4: once media A is closed or replaced by media B, no extraction started
\* for A changes the envelope or the playback source of a track of B (the
\* tracks read them from the preview file), whatever the interleaving of
\* the extraction workers of A and B.
C4_NoCrossMediaUpdate ==
    \A i \in 1..Len(tracks) :
        /\ C4_OwnContent(i, tracks[i].samples)
        /\ C4_OwnContent(i, tracks[i].source)

\* Clips are replaced only when no extraction is running; an extraction
\* succeeds, writes no file, or leaves an unreadable file.
FailureNext ==
    \/ \E m \in AudioMedia : extractors = {} /\ load_video(m) /\ UNCHANGED not_main
    \/ close_video /\ UNCHANGED not_main
    \/ on_duration_changed /\ UNCHANGED not_main
    \/ toggle_play /\ UNCHANGED not_main
    \/ \E th \in extractors, o \in ExtractOutcomes : ExtractorRun(th, o) /\ UNCHANGED not_main
    \/ \E sig \in ready : OnReady(sig) /\ UNCHANGED not_main

SpecFailure == Init /\ [][FailureNext]_vars

\* finished_extraction of the track at position i is delivered in this step.
C10_Delivered(i) ==
    /\ [id |-> tracks[i].id, index |-> tracks[i].index] \in ready \ ready'
    /\ video_path' = video_path
    /\ Len(tracks') = Len(tracks)

\* The extraction of the track at position i produced no output for this
\* media: the preview file is missing, unreadable, or left by another clip.
C10_Failed(i) ==
    files[tracks[i].index] # Decoded(video_path, tracks[i].index)

\* C10: when the extraction of a track failed, the track ends with an empty
\* envelope and no playback source, the other tracks keep what they received
\* and the master player is left as it was.
C10_FailedTrackStaysEmpty ==
    [][\A i \in 1..Len(tracks) :
          (C10_Delivered(i) /\ C10_Failed(i)) =>
              /\ tracks'[i].samples = NoContent
              /\ tracks'[i].source = NoContent
              /\ \A j \in (1..Len(tracks)) \ {i} : tracks'[j] = tracks[j]
              /\ player' = player]_vars

(* Sessions of the editor with an audio clip: track selection, gains and  *)
(* export.                                                                 *)

GainInputs == {-6}

SelectionNext ==
    \/ video_path = NoMedia /\ load_video("A") /\ UNCHANGED not_main
    \/ on_duration_changed /\ UNCHANGED not_main
    \/ toggle_play /\ UNCHANGED not_main
    \/ \E i \in 1..Len(tracks) : ToggleActive(i) /\ UNCHANGED not_main
    \/ \E i \in 1..Len(tracks), v \in GainInputs : GainChange(i, v) /\ UNCHANGED not_main
    \/ \E i \in 1..Len(tracks), v \in GainInputs \cup {0} : SpinChange(i, v) /\ UNCHANGED not_main
    \/ \E th \in extractors : ExtractorRun(th, "ok") /\ UNCHANGED not_main
    \/ \E sig \in ready : OnReady(sig) /\ UNCHANGED not_main
    \/ export("clip_cut.mp4", FALSE) /\ UNCHANGED not_main
    \/ \E k \in 1..Len(exporter), ok \in BOOLEAN : on_export_done(k, ok) /\ UNCHANGED not_main

SpecSelection == Init /\ [][SelectionNext]_vars

\* The gain filter expected for the track at position i of the
\* track list: stream i-1 of the audio streams, the stored gain.
C7_Gain(i) ==
    "[0:a:" \o ToString(i - 1) \o "]volume=" \o DbText(tracks[i].current_db) \o "dB"

C7_MixTail(n) ==
    "amix=inputs=" \o ToString(n) \o "[outa];[outa]dynaudnorm[a_final]"

\* The filter graph for the tracks as they are when the export is requested.
C7_Expected ==
    CASE tracks[1].checked /\ tracks[2].checked ->
             C7_Gain(1) \o "[a0];" \o C7_Gain(2) \o "[a1];[a0][a1]" \o C7_MixTail(2)
      [] tracks[1].checked /\ ~tracks[2].checked ->
             C7_Gain(1) \o "[a0];[a0]" \o C7_MixTail(1)
      [] ~tracks[1].checked /\ tracks[2].checked ->
             C7_Gain(2) \o "[a0];[a0]" \o C7_MixTail(1)
      [] OTHER -> ""

\* C7: the command of a started export has exactly one gain filter per
\* active track and none for an inactive one; each filter selects the stream
\* by the track's ordinal among the audio streams and carries the track's
\* stored gain; the mix stage takes that number of inputs and is followed
\* by the normalization stage.
C7_ExportFilter ==
    [][Len(exporter') > Len(exporter) =>
          /\ Len(tracks) = 2
          /\ exporter'[Len(exporter')].cmd[13] = "-filter_complex"
          /\ exporter'[Len(exporter')].cmd[14] = C7_Expected]_vars

\* Track 1 deactivated, track 0 at -6 dB by the slider: only track 0 appears.
C7_Witness ==
    \E k \in 1..Len(exporter) :
        exporter[k].cmd[14] =
            "[0:a:0]volume=-6dB[a0];[a0]amix=inputs=1[outa];[outa]dynaudnorm[a_final]"

(* Sessions of the editor with an audio clip: trim points and export.      *)

TrimInputs == {2000, 8000}

TrimNext ==
    \/ load_video("A") /\ UNCHANGED not_main
    \/ close_video /\ UNCHANGED not_main
    \/ on_duration_changed /\ UNCHANGED not_main
    \/ toggle_play /\ UNCHANGED not_main
    \/ \E pos \in TrimInputs : PositionTick(pos) /\ UNCHANGED not_main
    \/ \E ms \in TrimInputs : seek_all(ms) /\ UNCHANGED not_main
    \/ MainWindow_set_in_point /\ UNCHANGED not_main
    \/ MainWindow_set_out_point /\ UNCHANGED not_main
    \/ \E i \in 1..Len(tracks) : ToggleActive(i) /\ UNCHANGED not_main
    \/ \E o \in OutPaths, precise \in BOOLEAN : export(o, precise) /\ UNCHANGED not_main
    \/ \E k \in 1..Len(exporter), ok \in BOOLEAN : on_export_done(k, ok) /\ UNCHANGED not_main

SpecTrim == Init /\ [][TrimNext]_vars

\* ms as HH:MM:SS.ff (for whole hundredths of a second)
C8_HHMMSSff(ms) ==
    Pad2(ms \div 3600000) \o ":" \o Pad2((ms \div 60000) % 60) \o ":"
        \o Pad2((ms \div 1000) % 60) \o "." \o Pad2((ms % 1000) \div 10)

\* C8: the trim parameters of a started export are the in-point and the
\* out-point formatted as HH:MM:SS.ff; in-point 2000 ms and out-point 8000 ms
\* give 00:00:02.00 and 00:00:08.00.
C8_TrimParameters ==
    [][Len(exporter') > Len(exporter) =>
          LET cmd == exporter'[Len(exporter')].cmd
          IN  /\ cmd[3] = "-ss" /\ cmd[4] = C8_HHMMSSff(timeline.in_point)
              /\ cmd[5] = "-to" /\ cmd[6] = C8_HHMMSSff(timeline.out_point)
              /\ (timeline.in_point = 2000 /\ timeline.out_point = 8000) =>
                     cmd[4] = "00:00:02.00" /\ cmd[6] = "00:00:08.00"]_vars

C9_Warnings == {"Invalid selection.", "No active tracks."}

\* No active track, or an inverted or zero-length trim range.
C9_Violated ==
    \/ \A i \in 1..Len(tracks) : ~tracks[i].checked
    \/ timeline.out_point - timeline.in_point <= 0

\* C9: an export requested with zero active tracks or with out_point -
\* in_point <= 0 starts no ExportThread, and the request that names an output
\* file ends with a warning.
C9_RejectedBeforeEngine ==
    [][C9_Violated =>
          /\ Len(exporter') <= Len(exporter)
          /\ \A o \in OutPaths \ {""}, precise \in BOOLEAN :
                 export(o, precise) => dialog' \in C9_Warnings]_vars

\* A request with every track deactivated was answered by the warning.
C9_Witness ==
    /\ video_path # NoMedia
    /\ Len(tracks) > 0
    /\ \A i \in 1..Len(tracks) : ~tracks[i].checked
    /\ timeline.out_point - timeline.in_point > 0
    /\ dialog = "No active tracks."
    /\ exporter = <<>>

(* Sessions of the editor on one clip: the tracks follow the master.       *)

SyncTicks == {1000, 1050, 1051}

SyncSeeks == {1000, 1040}

SyncNext ==
    \/ video_path = NoMedia /\ load_video("A") /\ UNCHANGED not_main
    \/ on_duration_changed /\ UNCHANGED not_main
    \/ toggle_play /\ UNCHANGED not_main
    \/ \E th \in extractors : ExtractorRun(th, "ok") /\ UNCHANGED not_main
    \/ \E sig \in ready : OnReady(sig) /\ UNCHANGED not_main
    \/ \E pos \in SyncTicks : PositionTick(pos) /\ UNCHANGED not_main
    \/ \E i \in 1..Len(tracks), pos \in SyncTicks : TrackTick(i, pos) /\ UNCHANGED not_main
    \/ \E ms \in SyncSeeks : seek_all(ms) /\ UNCHANGED not_main
    \/ step_fwd /\ UNCHANGED not_main
    \/ step_back /\ UNCHANGED not_main

SpecSync == Init /\ [][SyncNext]_vars

\* The track at position i has a player with its decoded preview loaded.
C15_Loaded(i) == Exists(tracks[i].source) /\ tracks[i].source # Corrupt

\* C15: when the master reports position P, a track whose player stands at
\* P' is seeked to P if and only if |P - P'| > 50 ms; with |P - P'| <= 50 its
\* position is left untouched.
C15_SyncTolerance ==
    [][\A pos \in SyncTicks :
          PositionTick(pos) =>
              \A i \in 1..Len(tracks) :
                  C15_Loaded(i) =>
                      tracks'[i].ppos =
                          IF Abs(pos - tracks[i].ppos) > 50
                          THEN pos ELSE tracks[i].ppos]_vars

\* The master reported 1050 and a track standing at 1000 was left there.
C15_Witness ==
    /\ player.position = 1050
    /\ \E i \in 1..Len(tracks) :
          /\ C15_Loaded(i)
          /\ tracks[i].wpos = 1050
          /\ tracks[i].ppos = 1000

\* C24: with the tracks of one clip extracting concurrently, the track of
\* audio stream i shows the envelope and plays the source decoded from stream
\* i, in whatever order the extractions complete and are delivered.
C24_RoutedByTrack ==
    \A i \in 1..Len(tracks) :
        /\ tracks[i].index = i - 1
        /\ tracks[i].samples \in {NoContent, Decoded("A", i - 1)}
        /\ tracks[i].source \in {NoContent, Decoded("A", i - 1)}

\* The extraction of stream 1 was delivered before that of stream 0.
C24_Witness ==
    /\ Len(tracks) = 2
    /\ tracks[1].source = NoContent
    /\ tracks[1].samples = NoContent
    /\ tracks[2].source = Decoded("A", 1)
    /\ tracks[2].samples = Decoded("A", 1)

\* C20: an explicit seek to ms puts the player of every track at ms, also
\* of a track that stands within 50 ms of ms.
C20_SeekUnconditional ==
    [][\A ms \in SyncSeeks :
          seek_all(ms) =>
              \A i \in 1..Len(tracks) :
                  C15_Loaded(i) => tracks'[i].ppos = ms]_vars

\* After a seek to 1040 both tracks stand at 1040.
C20_Witness ==
    /\ player.requested = 1040
    /\ player.position = 1040
    /\ Len(tracks) = 2
    /\ \A i \in 1..Len(tracks) : C15_Loaded(i) /\ tracks[i].ppos = 1040

----------------------------------------------------------------------------
(* Sessions of the editor on a clip with one audio stream: gains.          *)

GainRequests == {-100, 0, 12, 13, 20, 100}

GainNext ==
    \/ video_path = NoMedia /\ load_video("M") /\ UNCHANGED not_main
    \/ on_duration_changed /\ UNCHANGED not_main
    \/ toggle_play /\ UNCHANGED not_main
    \/ \E th \in extractors : ExtractorRun(th, "ok") /\ UNCHANGED not_main
    \/ \E sig \in ready : OnReady(sig) /\ UNCHANGED not_main
    \/ \E i \in 1..Len(tracks) : ToggleActive(i) /\ UNCHANGED not_main
    \/ \E i \in 1..Len(tracks), v \in GainRequests : GainChange(i, v) /\ UNCHANGED not_main
    \/ \E i \in 1..Len(tracks), v \in GainRequests : SpinChange(i, v) /\ UNCHANGED not_main
    \/ export("clip_cut.mp4", FALSE) /\ UNCHANGED not_main
    \/ \E k \in 1..Len(exporter), ok \in BOOLEAN : on_export_done(k, ok) /\ UNCHANGED not_main

SpecGain == Init /\ [][GainNext]_vars

C23_GainAfterReady ==
    \A i \in 1..Len(tracks) :
        Exists(tracks[i].source) =>
            /\ Linear(tracks[i].gain_db) = Linear(tracks[i].current_db.value)
            /\ tracks[i].volume =
                   IF tracks[i].is_active
                   THEN HeadroomLevel(tracks[i].current_db.value)
                   ELSE 0

\* The preview of a track set to 12 dB is loaded: it is drawn with 10^0.6
\* and plays at 0.995.
C23_Witness ==
    \E i \in 1..Len(tracks) :
        /\ Exists(tracks[i].source)
        /\ tracks[i].samples = Decoded(video_path, tracks[i].index)
        /\ tracks[i].current_db.value = 12
        /\ Linear(tracks[i].gain_db) = 3981072
        /\ tracks[i].volume = 995268

\* The -filter_complex argument for one track of stream 0 at a gain inside
\* the range, printed as an int or as a float.
C17_Filters ==
    {"[0:a:0]volume=" \o DbText(d)
         \o "dB[a0];[a0]amix=inputs=1[outa];[outa]dynaudnorm[a_final]" :
     d \in [value : -30..30, float : BOOLEAN]}

\* C17: the gain stored on a track is always within [-30, +30] dB (a request
\* for +100 stores 30, one for -100 stores -30), and so is the gain written
\* into an export command.
C17_GainClamp ==
    /\ \A i \in 1..Len(tracks) :
          /\ -30 <= tracks[i].current_db.value
          /\ tracks[i].current_db.value <= 30
    /\ \A k \in 1..Len(exporter) : exporter[k].cmd[14] \in C17_Filters

\* A request for +100 left 30 dB on the track, and an export carries 30dB.
C17_Witness ==
    /\ Len(tracks) = 1
    /\ tracks[1].current_db.value = 30
    /\ \E k \in 1..Len(exporter) :
          exporter[k].cmd[14] =
              "[0:a:0]volume=30dB[a0];[a0]amix=inputs=1[outa];[outa]dynaudnorm[a_final]"

----------------------------------------------------------------------------
(* Sessions of the editor on clips of 24 and 60 frames per second: frame   *)
(* steps, play and pause while the previews are extracted, export.         *)
(* A clip is opened when the extractions of the clip before have ended.    *)

StepMedia == {"F", "H"}

StepNext ==
    \/ \E m \in StepMedia : extractors = {} /\ load_video(m) /\ UNCHANGED not_main
    \/ on_duration_changed /\ UNCHANGED not_main
    \/ toggle_play /\ UNCHANGED not_main
    \/ step_fwd /\ UNCHANGED not_main
    \/ step_back /\ UNCHANGED not_main
    \/ \E th \in extractors : ExtractorRun(th, "ok") /\ UNCHANGED not_main
    \/ \E sig \in ready : OnReady(sig) /\ UNCHANGED not_main
    \/ export("clip_cut.mp4", FALSE) /\ UNCHANGED not_main
    \/ \E k \in 1..Len(exporter), ok \in BOOLEAN : on_export_done(k, ok) /\ UNCHANGED not_main

SpecStep == Init /\ [][StepNext]_vars

\* round(1000 / fps) for fps = num / den (no frame rate of the clips falls
\* on a half).
C21_Round ==
    LET num == 1000 * fps[2]
        den == fps[1]
    IN  (2 * num + den) \div (2 * den)

\* The master and every track with a playback source are paused.
C21_AllPaused ==
    /\ player'.state = "paused"
    /\ \A i \in 1..Len(tracks') :
          Exists(tracks'[i].source) => tracks'[i].pstate = "paused"

\* C21: step_fwd and step_back pause the master and every track, then seek
\* to position + round(1000/fps) and position - round(1000/fps): 17 ms at
\* 60 fps, 42 ms at 24 fps.
C21_FrameStepRounded ==
    [][/\ step_fwd =>
             /\ C21_AllPaused
             /\ player'.requested = player.position + C21_Round
       /\ step_back =>
             /\ C21_AllPaused
             /\ player'.requested = player.position - C21_Round]_vars

\* C22: a play/pause toggle switches the master between playing and paused
\* and hands the same command to every track: after a toggle to paused no
\* track plays and every track with a playback source is paused, after a
\* toggle to playing every track with a playback source plays.
C22_ToggleFansOut ==
    [][toggle_play =>
          IF player.state = "playing"
          THEN /\ player'.state = "paused"
               /\ \A i \in 1..Len(tracks) :
                     /\ tracks'[i].pstate # "playing"
                     /\ Exists(tracks[i].source) => tracks'[i].pstate = "paused"
          ELSE /\ player'.state = "playing"
               /\ \A i \in 1..Len(tracks) :
                     Exists(tracks[i].source) => tracks'[i].pstate = "playing"]_vars

\* The master was paused and played again (its position is where a frame
\* step left it), and the track with its preview loaded plays with it.
C22_Witness ==
    /\ player.state = "playing"
    /\ player.position > 0
    /\ \E i \in 1..Len(tracks) :
          Exists(tracks[i].source) /\ tracks[i].pstate = "playing"

\* C28: every track with a playback source plays if and only if the master
\* plays, and no track at all plays while the master does not.
C28_TracksFollowMaster ==
    \A i \in 1..Len(tracks) :
        /\ Exists(tracks[i].source) =>
               (tracks[i].pstate = "playing" <=> player.state = "playing")
        /\ tracks[i].pstate = "playing" => player.state = "playing"

\* A track received its preview while the master stood paused after a
\* frame step, and stands paused at the master's position.
C28_Witness ==
    /\ player.state = "paused"
    /\ player.position > 0
    /\ \E i \in 1..Len(tracks) :
          /\ Exists(tracks[i].source)
          /\ tracks[i].pstate = "paused"
          /\ tracks[i].ppos = player.position

----------------------------------------------------------------------------
(* Sessions of the editor on clips without audio: the keyframes arrive     *)
(* from the loader threads while clips are opened, closed and seeked.      *)

KeyframeMedia == {"K", "S1"}

KeyframeSeeks == {20, 2000, 3000, 4000, 5000, 9500}

KeyframeNext ==
    \/ \E m \in KeyframeMedia : load_video(m) /\ UNCHANGED not_main
    \/ close_video /\ UNCHANGED not_main
    \/ on_duration_changed /\ UNCHANGED not_main
    \/ \E m \in kf_loaders : on_keyframes_loaded(m) /\ UNCHANGED not_main
    \/ \E ms \in KeyframeSeeks : seek_all(ms) /\ UNCHANGED not_main

SpecKeyframes == Init /\ [][KeyframeNext]_vars

C25_Distance(k) == Abs(k - timeline'.position)

\* C25: the nearest keyframe computed on a position update (or when a list
\* arrives) is an element of the ascending, non-empty list at minimal
\* distance from the position; of two elements at that distance it is the
\* later one, so a list and a position always give the same result;
\* [1000, 5000, 9000] and position 4000 give 5000.
C25_NearestKeyframe ==
    [][(/\ keyframes' # <<>>
        /\ timeline'.position # timeline.position \/ keyframes' # keyframes) =>
          LET near == timeline'.nearest_keyframe
          IN  /\ \A j \in 1..(Len(keyframes') - 1) : keyframes'[j] <= keyframes'[j + 1]
              /\ near \in Range(keyframes')
              /\ \A k \in Range(keyframes') :
                    /\ C25_Distance(near) <= C25_Distance(k)
                    /\ C25_Distance(near) = C25_Distance(k) => k <= near
              /\ (keyframes' = <<1000, 5000, 9000>> /\ timeline'.position = 4000) =>
                     near = 5000]_vars

\* Position 3000 lies between 1000 and 5000 at equal distance: 5000 is shown.
C25_Witness ==
    /\ keyframes = <<1000, 5000, 9000>>
    /\ timeline.position = 3000
    /\ timeline.nearest_keyframe = 5000

\* C27: once the keyframe loader of the clip that is open has delivered, the
\* keyframes in use are those of that clip: a loader started for a clip
\* opened before cannot replace them when it completes late.
C27_NoStaleKeyframes ==
    (video_path # NoMedia /\ ProbeOk(video_path) /\ video_path \notin kf_loaders) =>
        keyframes = sorted(KeyframesOf(video_path))

----------------------------------------------------------------------------
(* Sessions of the editor on a clip of 61 minutes: trim points and export. *)

LongSeeks == {59996, 3000000, 3600000, 3659990}

LongNext ==
    \/ video_path = NoMedia /\ load_video("L") /\ UNCHANGED not_main
    \/ on_duration_changed /\ UNCHANGED not_main
    \/ \E ms \in LongSeeks : seek_all(ms) /\ UNCHANGED not_main
    \/ MainWindow_set_in_point /\ UNCHANGED not_main
    \/ MainWindow_set_out_point /\ UNCHANGED not_main
    \/ export("clip_cut.mp4", FALSE) /\ UNCHANGED not_main
    \/ \E k \in 1..Len(exporter), ok \in BOOLEAN : on_export_done(k, ok) /\ UNCHANGED not_main

SpecLong == Init /\ [][LongNext]_vars

\* The instant, in ms, that a timestamp of minutes and seconds denotes.
C30_Instant(f) == f.minutes * 60000 + f.centis * 10

\* C30: the timestamps written into the export command for the in-point and
\* the out-point (clips longer than an hour and seconds that round up to
\* 60.00 included) denote the instants of the trim points to within 10 ms,
\* and the one of the in-point denotes no later instant than the one of the
\* out-point.
C30_TimestampRoundTrip ==
    [][Len(exporter') > Len(exporter) =>
          LET cmd == exporter'[Len(exporter')].cmd
              ss  == TimeFields(timeline.in_point)
              to  == TimeFields(timeline.out_point)
          IN  /\ cmd[4] = format_time(timeline.in_point)
              /\ cmd[6] = format_time(timeline.out_point)
              /\ Abs(C30_Instant(ss) - timeline.in_point) <= 10
              /\ Abs(C30_Instant(to) - timeline.out_point) <= 10
              /\ C30_Instant(ss) <= C30_Instant(to)]_vars

----------------------------------------------------------------------------
(* Sessions of the mixer.                                                  *)

MixerMedia == {"M", "S1", "X"}

MixerNext ==
    \/ \E m \in MixerMedia : mixer_load_video(m) /\ UNCHANGED not_mixer
    \/ close_clip /\ UNCHANGED not_mixer
    \/ \E i \in 1..Len(track_widgets) : mixer_ToggleChecked(i) /\ UNCHANGED not_mixer
    \/ \E i \in 1..Len(track_widgets), v \in GainInputs : mixer_GainChange(i, v) /\ UNCHANGED not_mixer
    \/ \E i \in 1..Len(track_widgets) : mixer_TogglePlayback(i) /\ UNCHANGED not_mixer
    \/ \E th \in mixer_extractors : mixer_ExtractorRun(th, "ok") /\ UNCHANGED not_mixer
    \/ \E sig \in mixer_ready : mixer_OnExtractionFinished(sig) /\ UNCHANGED not_mixer
    \/ \E o \in OutPaths : start_export(o) /\ UNCHANGED not_mixer
    \/ \E k \in 1..Len(export_thread), val \in {50} : mixer_set_progress(k, val) /\ UNCHANGED not_mixer
    \/ \E k \in 1..Len(export_thread), ok \in BOOLEAN : on_export_finished(k, ok) /\ UNCHANGED not_mixer

SpecMixer == Init /\ [][MixerNext]_vars

\* C3: at most one export job is in flight at any time, in the editor and
\* in the mixer: an export requested while one is running starts no second
\* ExportThread, whatever was exported, closed or loaded before.
C3_SingleExportJob ==
    /\ Len(exporter) <= 1
    /\ Len(export_thread) <= 1

\* C6: a track whose active flag (its checkbox) is off has audition level 0,
\* whatever gain changes, extraction completions and transport commands
\* happened since.
C6_InactiveTrackSilent ==
    /\ \A i \in 1..Len(tracks) : ~tracks[i].is_active => tracks[i].volume = 0
    /\ \A i \in 1..Len(track_widgets) :
          ~track_widgets[i].checked => track_widgets[i].volume = 0

----------------------------------------------------------------------------
(* The envelope builder on files of several lengths.                       *)

WaveNext ==
    \/ \E c \in CountInputs, sh \in ShapeInputs : WriteWav(c, sh) /\ UNCHANGED not_wave
    \/ WaveformLoad /\ UNCHANGED not_wave

InitWave == MainInit /\ MixerInit /\ WaveInit /\ RunIdle

SpecWave == InitWave /\ [][WaveNext]_vars

\* C2: for every sample count the envelope has at most ENVELOPE_TARGET
\* points, and every point lies in [0.0, 1.0].
C2_EnvelopeBound ==
    /\ Len(samples) <= ENVELOPE_TARGET
    /\ \A j \in 1..Len(samples) : 0 <= samples[j] /\ samples[j] <= FULL_SCALE

\* C26: for a buffer of N samples and target T = 2000, with step = max(1,
\* floor(N / T)), envelope point k is the largest absolute value among the
\* samples k*step .. min(N, (k+1)*step) - 1, over 32768 (a peak hold: a chunk
\* of one full-scale sample and zeros gives 1.0); an empty buffer gives an
\* empty envelope and N < T an envelope of N points.
C26_PeakHold ==
    [][WaveformLoad =>
          LET N    == wav.count
              step == IF N \div 2000 >= 1 THEN N \div 2000 ELSE 1
          IN  /\ N = 0 => samples' = <<>>
              /\ N < 2000 => Len(samples') = N
              /\ (Len(samples') - 1) * step < N
              /\ N <= Len(samples') * step
              /\ \A k \in 0..(Len(samples') - 1) :
                    LET lo == k * step
                        hi == Min(N, (k + 1) * step) - 1
                    IN  /\ \A j \in lo..hi : Abs(Sample(wav.shape, j)) <= samples'[k + 1]
                        /\ \E j \in lo..hi : Abs(Sample(wav.shape, j)) = samples'[k + 1]
              /\ (wav.shape = "spike" /\ step >= 2) => samples'[1] = 32768]_vars

\* 4000 samples, every fourth one at full scale: 2000 chunks of two samples,
\* the first holds the full-scale sample and shows 1.0, the second shows 0.
C26_Witness ==
    /\ wav = [count |-> 4000, shape |-> "spike"]
    /\ Len(samples) = 2000
    /\ samples[1] = FULL_SCALE
    /\ samples[2] = 0

----------------------------------------------------------------------------
(* One run of an ExportThread.                                             *)

RunNext ==
    \/ \E ok \in BOOLEAN : Popen(ok) /\ UNCHANGED not_run
    \/ \E m \in BOOLEAN, cs \in TimeTokens : ReadLine(m, cs) /\ UNCHANGED not_run
    \/ EndOfOutput /\ UNCHANGED not_run
    \/ \E rc \in {0, 1} : ProcessExit(rc) /\ UNCHANGED not_run
    \/ WaitReturns /\ UNCHANGED not_run
    \/ stop /\ UNCHANGED not_run

InitRun == MainInit /\ MixerInit /\ WaveIdle /\ RunInit

SpecRun == InitRun /\ [][RunNext]_vars

\* C5: every progress value reported while the engine process is running is
\* in 0..99; 100 is reported only after the process exited with return code
\* 0 and before success is announced, never for a failed or running process.
C5_ProgressRange ==
    /\ \A k \in 1..Len(progress_update) :
          LET e == progress_update[k]
          IN  /\ e.value \in 0..100
              /\ e.state = "running" => e.value \in 0..99
              /\ e.value = 100 =>
                    /\ e.state = "exited"
                    /\ e.returncode = 0
                    /\ ~e.announced
    /\ \A k \in 1..Len(finished) :
          finished[k] =>
              /\ progress_update # <<>>
              /\ progress_update[Len(progress_update)].value = 100

\* C11: once stop() was called on a running export, the engine process is
\* terminated, no success is reported, and the job ends reported as failed,
\* wherever stop() falls between the read loop and the exit of the process.
C11_CancelledJobFails ==
    [][~is_running =>
          /\ finished' \in {finished, Append(finished, FALSE)}
          /\ (thread_pc # "done" /\ thread_pc' = "done") =>
                 /\ finished' = Append(finished, FALSE)
                 /\ process'.state # "running" \/ process'.killed]_vars

\* C29: a run of the export thread reports exactly one terminal outcome, the
\* finished signal that re-enables the export control: never more than one,
\* one when run has returned (normally, with an error, after a failure to
\* spawn, or cancelled), and success exactly for return code 0.
C29_OneTerminalOutcome ==
    /\ Len(finished) <= 1
    /\ thread_pc = "done" =>
          /\ Len(finished) = 1
          /\ finished[1] <=> (process.state = "exited" /\ process.returncode = 0)

\* A line past the total was reported as 99 while ffmpeg ran, and 100 came
\* with the successful end.
C5_Witness ==
    /\ finished = <<TRUE>>
    /\ \E k \in 1..Len(progress_update) :
          progress_update[k].value = 99 /\ progress_update[k].state = "running"
    /\ progress_update[Len(progress_update)].value = 100

====
